---- MODULE Spec2Model ----
(***************************************************************************)
(* Model of mysql.fabric.command: the lock-scope resolvers of the          *)
(* procedure commands (ProcedureCommand, ProcedureGroup, ProcedureShard),  *)
(* the wait protocol of ProcedureCommand.wait_for_procedures, and the      *)
(* Executor the procedures are handed to.                                  *)
(*                                                                         *)
(* Python values are modelled as strings: "G1".."G3" are group             *)
(* identifiers, "7" and "8" are shard keys, "None" is Python's None.       *)
(***************************************************************************)
EXTENDS Integers, Sequences, FiniteSets, TLC

(* ----------------------------- bounds ---------------------------------- *)

\* Largest number of parameters (besides self) of an execute function.
MaxParams == 2

\* The metadata lookup calls 1..MaxFaultCall of one resolution may be made to fail.
MaxFaultCall == 2

\* Number of procedures handed to the Executor.
NProcs == 2

(* ------------------------- Python values -------------------------------- *)

None == "None"

\* set(["lock"]): the default lock key.
Sentinel == "lock"

\* The default of ProcedureGroup.get_lockable_objects' variable.
GroupDefaultVariable == "group_id"

\* The default of ProcedureShard.get_lockable_objects' variable.
ShardDefaultVariable == <<"group_id", "table_name", "shard_mapping_id", "shard_id">>

\* What a tuple is when it is used as one element of a tuple of names.
TupleObject == "<tuple>"

NoExc == [type |-> "None", origin |-> "None"]

Exc(type, origin) == [type |-> type, origin |-> origin]

\* The value of a "variable" argument: None, a string or a tuple of strings.
\* A string is kept as the one-element sequence of itself.
VarNone == [t |-> "NoneType", v |-> <<>>]
VarStr(s) == [t |-> "str", v |-> <<s>>]
VarTuple(s) == [t |-> "tuple", v |-> s]

\* Python truth value of a "variable" argument (used by `variable or default`).
Truthy(variable) ==
    CASE variable.t = "NoneType" -> FALSE
      [] variable.t = "str" -> variable.v # <<"">>
      [] OTHER -> variable.v # <<>>

\* A "function" argument: None or a function with the given argument names.
FuncNone == [given |-> FALSE, args |-> {}]
Func(args) == [given |-> TRUE, args |-> args]

\* function or self.execute.original_function, as the set inspect.getargspec(...).args.
ArgSpec(function, executeArgs) ==
    IF function.given THEN function.args ELSE executeArgs

(* ---------------------- _get_args_values -------------------------------- *)

\* Mutant: every name that is a local variable of the frame is taken, whether
\* the function declares it or not.
RECURSIVE GetArgsLoopAnyLocal(_, _, _, _, _)
GetArgsLoopAnyLocal(variables, i, argsspec, locals, args) ==
    IF i > Len(variables)
    THEN [raised |-> NoExc, args |-> args]
    ELSE LET variable == variables[i] IN
         IF variable \in DOMAIN locals /\ variable \notin DOMAIN args
         THEN GetArgsLoopAnyLocal(variables, i + 1, argsspec, locals,
                  [n \in DOMAIN args \cup {variable} |->
                      IF n = variable THEN locals[variable] ELSE args[n]])
         ELSE GetArgsLoopAnyLocal(variables, i + 1, argsspec, locals, args)

\* Lines 520-525: the loop over variables.
RECURSIVE GetArgsLoop(_, _, _, _, _)
GetArgsLoop(variables, i, argsspec, locals, args) ==
    IF i > Len(variables)
    THEN [raised |-> NoExc, args |-> args]
    ELSE LET variable == variables[i] IN
         IF variable \in argsspec
         THEN IF variable \in DOMAIN args /\ args[variable] # None
              THEN [raised |-> Exc("AssertionError", "_get_args_values"), args |-> args]
              ELSE IF variable \notin DOMAIN locals
              THEN [raised |-> Exc("KeyError", "_get_args_values"), args |-> args]
              ELSE GetArgsLoop(variables, i + 1, argsspec, locals,
                       [n \in DOMAIN args \cup {variable} |->
                           IF n = variable THEN locals[variable] ELSE args[n]])
         ELSE GetArgsLoop(variables, i + 1, argsspec, locals, args)

\* frame is [present, locals]: the caller's frame, or no frame at all.
GetArgsValues(variables, argsspec, frame) ==
    IF ~frame.present
    THEN [raised |-> NoExc, args |-> <<>>]
    ELSE GetArgsLoop(variables, 1, argsspec, frame.locals, <<>>)

(* --------------------- persister and metadata store --------------------- *)

\* One call made on the persister or on the shard-mapping store, and whether it
\* returned (ok) or raised.
Call(op, scope, name, value, ok) ==
    [op |-> op, scope |-> scope, name |-> name, value |-> value, ok |-> ok]

\* MappingShardsGroups.get_group(scope, variable, value): the rows of the mapping,
\* each row's first field a group identifier.
GetGroup(store, scope, variable, value) ==
    IF <<scope, variable, value>> \in DOMAIN store
    THEN store[<<scope, variable, value>>]
    ELSE <<>>

\* The persister's transaction after one call: begin opens it, a commit or a
\* rollback that succeeds releases it, a call that raises changes nothing.
TxAfterCall(open, c) ==
    CASE c.op = "begin" /\ c.ok -> TRUE
      [] c.op \in {"commit", "rollback"} /\ c.ok -> FALSE
      [] OTHER -> open

RECURSIVE TxAfter(_, _)
TxAfter(open, calls) ==
    IF calls = <<>> THEN open
    ELSE TxAfter(TxAfterCall(open, Head(calls)), Tail(calls))

\* The faults the environment can inject into one resolution.
NoFault == [op |-> "none", n |-> 0]
Fault(op, n) == [op |-> op, n |-> n]

(* ------------- ProcedureCommand.get_lockable_objects --------------------- *)

\* What a call of get_lockable_objects hands back: the set returned or the
\* exception raised, the calls it made, whether it added the sentinel, the
\* exception its handler caught (error) and the arguments it resolved (args).
Outcome(returned, result, raised, calls, added, error, args) ==
    [returned |-> returned, result |-> result, raised |-> raised,
     calls |-> calls, added |-> added, error |-> error, args |-> args]

\* Mutant: no key at all.
DefaultResolveNoKey(variable, function) ==
    Outcome(TRUE, {}, NoExc, <<>>, FALSE, NoExc, <<>>)

DefaultResolve(variable, function) ==
    Outcome(TRUE, {Sentinel}, NoExc, <<>>, TRUE, NoExc, <<>>)

(* ------------- ProcedureGroup.get_lockable_objects ----------------------- *)

\* Mutant: the sentinel is added on every call.
GroupKeysAlwaysSentinel(args) ==
    {args[n] : n \in DOMAIN args} \cup {Sentinel}

\* Lines 440-444: the values of the resolved arguments, or the sentinel.
GroupKeys(args) ==
    LET lockable_objects == {args[n] : n \in DOMAIN args}
    IN  IF Cardinality(lockable_objects) = 0 THEN {Sentinel} ELSE lockable_objects

GroupResolve(variable, function, executeArgs, frame) ==
    LET v0 == IF Truthy(variable) THEN variable ELSE VarStr(GroupDefaultVariable)
        variables == IF v0.t = "tuple" THEN <<TupleObject>> ELSE <<v0.v[1]>>
        got == GetArgsValues(variables, ArgSpec(function, executeArgs), frame)
    IN  IF got.raised # NoExc
        THEN Outcome(FALSE, {}, got.raised, <<>>, FALSE, NoExc, got.args)
        ELSE Outcome(TRUE, GroupKeys(got.args), NoExc, <<>>,
                     DOMAIN got.args = {}, NoExc, got.args)

(* ------------- ProcedureShard.get_lockable_objects ----------------------- *)

\* The state of the try body: the keys so far, the calls made, the number of
\* lookups made and the exception raised, if any.
Acc(lockable, calls, nlookups, raised, added, args) ==
    [lockable |-> lockable, calls |-> calls, nlookups |-> nlookups,
     raised |-> raised, added |-> added, args |-> args]

\* Mutant: the looked-up value is taken as a key too.
RowKeysWithValue(rows, value) ==
    {rows[k][1] : k \in DOMAIN rows} \cup {value}

\* Lines 483-484 and 486-487: row[0] of every row.
RowKeys(rows, value) ==
    {rows[k][1] : k \in DOMAIN rows}

\* Lines 482-487, one scope: the lookup and the keys it adds.
ShardLookup(acc, scope, variable, value, store, fault) ==
    LET n == acc.nlookups + 1
        fails == fault.op = "get_group" /\ fault.n = n
    IN  [acc EXCEPT
           !.nlookups = n,
           !.calls = Append(@, Call("get_group", scope, variable, value, ~fails)),
           !.raised = IF fails THEN Exc("DatabaseError", "get_group") ELSE NoExc,
           !.lockable = IF fails THEN @
                        ELSE @ \cup RowKeys(GetGroup(store, scope, variable, value), value)]

\* Lines 478-487: the loop over args.iteritems(), in the order items.
RECURSIVE ShardLoop(_, _, _, _, _, _)
ShardLoop(items, i, args, store, fault, acc) ==
    IF i > Len(items) THEN acc
    ELSE LET variable == items[i]
             value == args[variable]
         IN  IF variable = "group_id"
             THEN ShardLoop(items, i + 1, args, store, fault,
                            [acc EXCEPT !.lockable = @ \cup {value}])
             ELSE LET a1 == ShardLookup(acc, "local", variable, value, store, fault)
                  IN  IF a1.raised # NoExc THEN a1
                      ELSE LET a2 == ShardLookup(a1, "global", variable, value, store, fault)
                           IN  IF a2.raised # NoExc THEN a2
                               ELSE ShardLoop(items, i + 1, args, store, fault, a2)

\* Mutant: the sentinel is never added.
AddSentinelNever(acc) ==
    acc

\* Lines 489-490.
AddSentinel(acc) ==
    IF Cardinality(acc.lockable) = 0
    THEN [acc EXCEPT !.lockable = {Sentinel}, !.added = TRUE]
    ELSE acc

\* Lines 473-490: the body of the try statement.
ShardTryBody(variable, function, executeArgs, frame, order, store, fault) ==
    LET begun == Acc({}, <<Call("begin", "", "", "", fault.op # "begin")>>, 0,
                     IF fault.op = "begin" THEN Exc("DatabaseError", "begin") ELSE NoExc,
                     FALSE, <<>>)
        v0 == IF Truthy(variable) THEN variable ELSE VarTuple(ShardDefaultVariable)
        variables == IF v0.t = "tuple" THEN v0.v ELSE <<v0.v[1]>>
        got == GetArgsValues(variables, ArgSpec(function, executeArgs), frame)
        items == SelectSeq(order, LAMBDA n : n \in DOMAIN got.args)
        done == ShardLoop(items, 1, got.args, store, fault,
                          [begun EXCEPT !.args = got.args])
    IN  IF begun.raised # NoExc THEN begun
        ELSE IF got.raised # NoExc THEN [begun EXCEPT !.raised = got.raised]
        ELSE IF done.raised # NoExc THEN done
        ELSE AddSentinel(done)

\* Line 501, a bare raise after the handler of lines 495-499 has run: Python 2
\* re-raises the exception handled last in the frame, which is the rollback's
\* error when the rollback raised and the original one otherwise.
Reraise(original, rollbackError) ==
    IF rollbackError # NoExc THEN rollbackError ELSE original

\* Mutant: the handler re-raises without a rollback.
ShardExceptNoRollback(body, rollbackFails) ==
    Outcome(FALSE, {}, body.raised, body.calls, FALSE, body.raised, body.args)

\* Lines 491-501: the except clause.
ShardExcept(body, rollbackFails) ==
    LET rollbackError == IF rollbackFails THEN Exc("DatabaseError", "rollback") ELSE NoExc
    IN  Outcome(FALSE, {}, Reraise(body.raised, rollbackError),
                Append(body.calls, Call("rollback", "", "", "", ~rollbackFails)),
                FALSE, body.raised, body.args)

\* Mutant: a commit failure takes the error path.
ShardElseAborts(body, fault) ==
    IF fault.op = "commit"
    THEN Outcome(FALSE, {}, Exc("DatabaseError", "commit"),
                 body.calls \o <<Call("commit", "", "", "", FALSE),
                                 Call("rollback", "", "", "", TRUE)>>, FALSE,
                 Exc("DatabaseError", "commit"), body.args)
    ELSE Outcome(TRUE, body.lockable, NoExc,
                 Append(body.calls, Call("commit", "", "", "", TRUE)), body.added,
                 NoExc, body.args)

\* Lines 502-509: the else clause and the return.
ShardElse(body, fault) ==
    Outcome(TRUE, body.lockable, NoExc,
            Append(body.calls, Call("commit", "", "", "", fault.op # "commit")),
            body.added, NoExc, body.args)

ShardResolve(variable, function, executeArgs, frame, order, store, fault, rollbackFails) ==
    LET body == ShardTryBody(variable, function, executeArgs, frame, order, store, fault)
    IN  IF body.raised # NoExc
        THEN ShardExcept(body, rollbackFails)
        ELSE ShardElse(body, fault)

(* ------------------------------ state ----------------------------------- *)

VARIABLES
    store,      \* the shard-mapping metadata: <<scope, name, value>> -> rows
    txOpen,     \* the persister has a transaction that was begun and not released
    call,       \* the get_lockable_objects call under way: its arguments and faults
    out,        \* what that call handed back to its caller
    rpc,        \* "off", "ready" (the call is about to run) or "done"
    procs,      \* the procedures the Executor knows, by uuid
    waiter,     \* the thread inside wait_for_procedures
    arg,        \* the arguments drawn for one call of a static method
    ret,        \* what that call returned or raised
    cmd,        \* one Command instance: its contexts and its last setup call
    registry,   \* _COMMANDS_CLASS: group name -> (command name -> command class)
    regCall,    \* the last call made on the registry, and what it gave
    wrap,       \* one thread calling a wrapped execute, and the debug log
    sent        \* the calls the client proxy has received, in order

\* The state outside the resolvers, the Executor and the wait.
aux == <<arg, ret, cmd, registry, regCall, wrap, sent>>

vars == <<store, txOpen, call, out, rpc, procs, waiter, aux>>

\* A dict with no key.
EmptyDict == [k \in {} |-> k]

NoArg == [status |-> <<>>, details |-> FALSE]

NoRet == [done |-> FALSE, raised |-> NoExc, text |-> <<>>]

\* Command.__init__, lines 180-184.
NewCommand ==
    [client |-> None, server |-> None, options |-> None, config |-> None,
     last |-> "__init__", raised |-> NoExc, calls |-> 0]

NoRegCall ==
    [op |-> "none", group |-> "", name |-> "", command |-> "", before |-> EmptyDict,
     raised |-> NoExc, result |-> <<>>]

\* No wrapped execute has been called and nothing was logged.
NoWrap ==
    [pc |-> "idle", cname |-> "", args |-> <<>>, value |-> None, ret |-> None,
     raised |-> NoExc, log |-> <<>>, calls |-> 0]

\* Nothing has happened outside the part of the program under study.
AuxIdle ==
    /\ arg = NoArg
    /\ ret = NoRet
    /\ cmd = NewCommand
    /\ registry = EmptyDict
    /\ regCall = NoRegCall
    /\ wrap = NoWrap
    /\ sent = <<>>

(* --------------------- inputs of the resolvers --------------------------- *)

ParamNames == {"group_id", "table_name", "shard_id", "other"}

\* A local variable of the caller that need not be a parameter of execute.
ExtraLocals == {"shard_id"}

LocalValues(n) ==
    CASE n = "group_id" -> {"G1", "G3"}
      [] n = "other" -> {"5"}
      [] OTHER -> {"7", None}

AllValues == UNION {LocalValues(n) : n \in ParamNames}

ParamSets == {P \in SUBSET ParamNames : Cardinality(P) <= MaxParams}

Frames(P) ==
    UNION { { [present |-> TRUE, locals |-> l] :
                l \in {f \in [P \cup X -> AllValues] :
                          \A n \in P \cup X : f[n] \in LocalValues(n)} } :
            X \in {{}} \cup {{x} : x \in ExtraLocals \ P} }

\* The orders in which a dictionary with the keys S may be iterated.
Orders(S) ==
    {o \in [1..Cardinality(S) -> S] : \A i, j \in 1..Cardinality(S) : o[i] = o[j] => i = j}

GroupVariables ==
    {VarNone, VarStr(""), VarStr("group_id"), VarStr("shard_id"),
     VarTuple(<<"group_id">>)}

ShardVariables ==
    {VarNone, VarStr("shard_id"), VarTuple(<<"table_name", "group_id">>),
     VarTuple(<<"shard_id", "shard_id">>)}

Functions == {FuncNone, Func({"self", "shard_id"})}

Faults ==
    {NoFault, Fault("begin", 0), Fault("commit", 0)}
        \cup {Fault("get_group", n) : n \in 1..MaxFaultCall}

StoreSpec ==
    (<<"local", "shard_id", "7">> :> << <<"G2">> >>)
        @@ (<<"global", "shard_id", "7">> :> << <<"G1">> >>)

StoreEmpty ==
    (<<"local", "shard_id", "7">> :> << >>)

StoreMulti ==
    (<<"local", "table_name", "7">> :> << <<"G1", "a">>, <<"G2", "b">> >>)
        @@ (<<"global", "table_name", "7">> :> << <<"G2", "b">> >>)
        @@ (<<"local", "shard_id", "7">> :> << <<"G2">>, <<"G2">> >>)
        @@ (<<"global", "shard_id", None>> :> << <<"G3">> >>)

Stores == {StoreSpec, StoreEmpty, StoreMulti}

Invocation(kind, variable, function, executeArgs, frame, order, fault, rollbackFails) ==
    [kind |-> kind, variable |-> variable, function |-> function,
     executeArgs |-> executeArgs, frame |-> frame, order |-> order,
     fault |-> fault, rollbackFails |-> rollbackFails]

NoFrame == [present |-> FALSE, locals |-> <<>>]

NoCall == Invocation("none", VarNone, FuncNone, {}, NoFrame, <<>>, NoFault, FALSE)

NoOut == Outcome(FALSE, {}, NoExc, <<>>, FALSE, NoExc, <<>>)

(* ------------------------- the Executor's state -------------------------- *)

Procs == 1..NProcs

NoProc == [state |-> "NONE", locks |-> {}, status |-> <<>>, result |-> None]

\* The caller of wait_for_procedures: where it is, the procedures it passed,
\* the value line 341 gave "synchronous", what was returned, whether the
\* Executor's wait was called and whether status and result were read.
IdleWaiter ==
    [pc |-> "idle", param |-> <<>>, blocking |-> FALSE,
     ret |-> [shape |-> "none", uuid |-> <<>>, status |-> <<>>, result |-> None],
     waited |-> FALSE, read |-> FALSE]

(* ---------------- one resolution, from drawn inputs ---------------------- *)

InitResolve ==
    /\ store \in Stores
    /\ txOpen = FALSE
    /\ \E P \in ParamSets, function \in Functions :
         \E frame \in Frames(P) :
           \/ \E variable \in GroupVariables :
                call = Invocation("default", variable, function, P \cup {"self"},
                                  frame, <<>>, NoFault, FALSE)
           \/ \E variable \in GroupVariables :
                call = Invocation("group", variable, function, P \cup {"self"},
                                  frame, <<>>, NoFault, FALSE)
           \/ \E variable \in ShardVariables, fault \in Faults, rollbackFails \in BOOLEAN,
                 order \in Orders(ArgSpec(function, P \cup {"self"}) \ {"self"}) :
                call = Invocation("shard", variable, function, P \cup {"self"},
                                  frame, order, fault, rollbackFails)
    /\ out = NoOut
    /\ rpc = "ready"
    /\ procs = [p \in Procs |-> NoProc]
    /\ waiter = IdleWaiter
    /\ AuxIdle

CallDefault ==
    /\ rpc = "ready"
    /\ call.kind = "default"
    /\ out' = DefaultResolve(call.variable, call.function)
    /\ rpc' = "done"
    /\ txOpen' = TxAfter(txOpen, out'.calls)
    /\ UNCHANGED <<store, call, procs, waiter, aux>>

CallGroup ==
    /\ rpc = "ready"
    /\ call.kind = "group"
    /\ out' = GroupResolve(call.variable, call.function, call.executeArgs, call.frame)
    /\ rpc' = "done"
    /\ txOpen' = TxAfter(txOpen, out'.calls)
    /\ UNCHANGED <<store, call, procs, waiter, aux>>

CallShard ==
    /\ rpc = "ready"
    /\ call.kind = "shard"
    /\ out' = ShardResolve(call.variable, call.function, call.executeArgs, call.frame,
                           call.order, store, call.fault, call.rollbackFails)
    /\ rpc' = "done"
    /\ txOpen' = TxAfter(txOpen, out'.calls)
    /\ UNCHANGED <<store, call, procs, waiter, aux>>

NextResolve == CallDefault \/ CallGroup \/ CallShard

SpecResolve == InitResolve /\ [][NextResolve]_vars

(* ------------------------------ strings --------------------------------- *)

\* A Python string is the sequence of its characters.
LowerCase ==
    <<"a", "b", "c", "d", "e", "f", "g", "h", "i", "j", "k", "l", "m",
      "n", "o", "p", "q", "r", "s", "t", "u", "v", "w", "x", "y", "z">>

UpperCase ==
    <<"A", "B", "C", "D", "E", "F", "G", "H", "I", "J", "K", "L", "M",
      "N", "O", "P", "Q", "R", "S", "T", "U", "V", "W", "X", "Y", "Z">>

UpperChar(c) ==
    IF \E i \in DOMAIN LowerCase : LowerCase[i] = c
    THEN UpperCase[CHOOSE i \in DOMAIN LowerCase : LowerCase[i] = c]
    ELSE c

\* str.upper()
PyUpper(s) == [i \in DOMAIN s |-> UpperChar(s[i])]

Digit(d) == <<"0", "1", "2", "3", "4", "5", "6", "7", "8", "9">>[d + 1]

\* str(n) of an integer n >= 0.
RECURSIVE Digits(_)
Digits(n) ==
    IF n < 10 THEN <<Digit(n)>> ELSE Append(Digits(n \div 10), Digit(n % 10))

\* The values a caller passes as "synchronous".
PyBool(b) == [t |-> "bool", n |-> IF b THEN 1 ELSE 0, s |-> <<>>]
PyInt(n) == [t |-> "int", n |-> n, s |-> <<>>]
PyString(s) == [t |-> "str", n |-> 0, s |-> s]
PyNone == [t |-> "NoneType", n |-> 0, s |-> <<>>]

\* str(value)
PyStr(value) ==
    CASE value.t = "bool" ->
            IF value.n = 1 THEN <<"T", "r", "u", "e">> ELSE <<"F", "a", "l", "s", "e">>
      [] value.t = "int" -> Digits(value.n)
      [] value.t = "str" -> value.s
      [] OTHER -> <<"N", "o", "n", "e">>

SyncValues ==
    {PyBool(TRUE), PyBool(FALSE), PyInt(0), PyInt(1), PyInt(10), PyNone,
     PyString(<<"f", "a", "l", "s", "e">>), PyString(<<"F", "a", "l", "s", "e">>),
     PyString(<<"F", "A", "L", "S", "E">>), PyString(<<"0">>),
     PyString(<<"t", "r", "u", "e">>), PyString(<<"n", "o">>), PyString(<<>>)}

(* ------------------------------ Executor -------------------------------- *)

\* One entry of a procedure's status history.
Step(state, success, description, diagnosis) ==
    [state |-> state, success |-> success, description |-> description,
     diagnosis |-> diagnosis]

\* str(procedure.uuid): the procedure p has the uuid p.
StrUuid(p) == <<"u", "u", "i", "d", "-">> \o Digits(p)

\* Executor.enqueue: the procedure is created with its lock keys, its job
\* ENQUEUED.
Enqueue(p, locks) ==
    [procs EXCEPT ![p] =
        [state |-> "ENQUEUED", locks |-> locks,
         status |-> <<Step("ENQUEUED", "SUCCESS", "Enqueued", "")>>,
         result |-> None]]

\* The Executor after every procedure was scheduled with the default keys.
AllEnqueued ==
    [p \in Procs |->
        [state |-> "ENQUEUED", locks |-> {Sentinel},
         status |-> <<Step("ENQUEUED", "SUCCESS", "Enqueued", "")>>,
         result |-> None]]

\* Mutant: a job starts whatever the other jobs hold.
CanStartAlways(p) ==
    TRUE

\* The Executor's lock table: the job of p may start when no procedure whose
\* keys intersect its own is running or was enqueued before it.
CanStart(p) ==
    \A q \in Procs \ {p} :
        procs[q].locks \cap procs[p].locks # {} =>
            /\ procs[q].state # "RUNNING"
            /\ procs[q].state = "ENQUEUED" => q > p

\* Executor.wait_for_procedure returns once the procedure is terminal.
WaitOver(p) ==
    procs[p].state = "COMPLETE"

(* ----------------- the commands handed to the Executor ------------------ *)

\* The execute functions of the commands that are scheduled, by strategy.
ExecuteArgs(kind) ==
    CASE kind = "default" -> {{"self"}}
      [] kind = "group" -> {{"self", "group_id"}, {"self", "other"}}
      [] OTHER -> {{"self", "shard_id"}, {"self", "table_name", "group_id"}}

\* The frames of an execute call with the parameters P: its arguments.
ExecuteFrames(P) ==
    { [present |-> TRUE, locals |-> l] :
        l \in {f \in [P \ {"self"} -> AllValues] :
                  \A n \in P \ {"self"} : f[n] \in LocalValues(n)} }

\* The caller of get_lockable_objects hands the keys to the Executor when the
\* resolution returns them, and schedules nothing when it raises.  Procedures
\* get their uuids in the order they are scheduled.
NextUuid(p) ==
    /\ procs[p].state = "NONE"
    /\ \A q \in Procs : q < p => procs[q].state # "NONE"

Scheduled(p, outcome) ==
    IF outcome.returned THEN Enqueue(p, outcome.result) ELSE procs

ScheduleDefault(p) ==
    /\ NextUuid(p)
    /\ procs' = Scheduled(p, DefaultResolve(VarNone, FuncNone))
    /\ UNCHANGED <<store, txOpen, call, out, rpc, waiter, aux>>

ScheduleGroup(p) ==
    /\ NextUuid(p)
    /\ \E P \in ExecuteArgs("group") :
         \E frame \in ExecuteFrames(P) :
           procs' = Scheduled(p, GroupResolve(VarNone, FuncNone, P, frame))
    /\ UNCHANGED <<store, txOpen, call, out, rpc, waiter, aux>>

ScheduleShard(p) ==
    /\ NextUuid(p)
    /\ \E P \in ExecuteArgs("shard") :
         \E frame \in ExecuteFrames(P), order \in Orders(P \ {"self"}),
            fault \in {NoFault, Fault("begin", 0), Fault("commit", 0)},
            rollbackFails \in BOOLEAN :
           LET outcome == ShardResolve(VarNone, FuncNone, P, frame, order, store,
                                       fault, rollbackFails)
           IN  /\ procs' = Scheduled(p, outcome)
               /\ txOpen' = TxAfter(txOpen, outcome.calls)
    /\ UNCHANGED <<store, call, out, rpc, waiter, aux>>

\* A worker takes the job of p.
StartJob(p) ==
    /\ procs[p].state = "ENQUEUED"
    /\ CanStart(p)
    /\ procs' = [procs EXCEPT
                   ![p].state = "RUNNING",
                   ![p].status = Append(@, Step("RUNNING", "SUCCESS", "Executing", ""))]
    /\ UNCHANGED <<store, txOpen, call, out, rpc, waiter, aux>>

\* The job of p ends, in success or in failure; the procedure is terminal.
FinishJob(p, success) ==
    /\ procs[p].state = "RUNNING"
    /\ procs' = [procs EXCEPT
                   ![p].state = "COMPLETE",
                   ![p].status = Append(@,
                       IF success
                       THEN Step("COMPLETE", "SUCCESS", "Executed", "")
                       ELSE Step("COMPLETE", "FAILURE", "Tried to execute", "trace")),
                   ![p].result = IF success THEN "True" ELSE "False"]
    /\ UNCHANGED <<store, txOpen, call, out, rpc, waiter, aux>>

(* --------------- ProcedureCommand.wait_for_procedures ------------------- *)

\* Mutant: the comparison keeps the case of the string.
IsSynchronousCaseSensitive(synchronous) ==
    PyStr(synchronous) \notin {<<"F", "A", "L", "S", "E">>, <<"0">>}

\* Line 341.
IsSynchronous(synchronous) ==
    PyUpper(PyStr(synchronous)) \notin {<<"F", "A", "L", "S", "E">>, <<"0">>}

\* What wait_for_procedures returns: str(uuid) alone, or the triple.
Returned(shape, uuid, status, result) ==
    [shape |-> shape, uuid |-> uuid, status |-> status, result |-> result]

\* Mutant: the non-blocking path returns the triple too.
ReturnUuidAndFields(procedure_param) ==
    LET p == procedure_param[Len(procedure_param)]
    IN  [waiter EXCEPT !.pc = "returned", !.read = TRUE,
                       !.ret = Returned("triple", StrUuid(p), procs[p].status,
                                        procs[p].result)]

\* Line 349: return str(procedure_param[-1].uuid).
ReturnUuid(procedure_param) ==
    LET p == procedure_param[Len(procedure_param)]
    IN  [waiter EXCEPT !.pc = "returned",
                       !.ret = Returned("str", StrUuid(p), <<>>, None)]

\* Lines 346-347: return the uuid, the status and the result of the last
\* procedure, read when the wait is over.
ReturnTriple(procedure_param) ==
    LET p == procedure_param[Len(procedure_param)]
    IN  [waiter EXCEPT !.pc = "returned", !.read = TRUE,
                       !.ret = Returned("triple", StrUuid(p), procs[p].status,
                                        procs[p].result)]

\* Mutant: the blocking path does not wait for the Executor.
EnterWaitSkipped(procedure_param) ==
    ReturnTriple(procedure_param)

\* Lines 343-345: the caller blocks in executor.wait_for_procedure.
EnterWait(procedure_param) ==
    [waiter EXCEPT !.pc = "waiting", !.waited = TRUE]

\* Mutant: an empty list is refused, a longer one is not.
PreconditionAtLeastOne(procedure_param) ==
    Len(procedure_param) >= 1

\* Line 340: assert(len(procedure_param) == 1).
Precondition(procedure_param) ==
    Len(procedure_param) = 1

\* Lines 340-349, up to the point where the caller blocks or returns.
WaitForProcedures(procedure_param, synchronous) ==
    /\ waiter.pc = "idle"
    /\ \A i \in DOMAIN procedure_param : procs[procedure_param[i]].state # "NONE"
    /\ waiter' =
         LET entered == [IdleWaiter EXCEPT !.param = procedure_param,
                                           !.blocking = IsSynchronous(synchronous)]
         IN  IF ~Precondition(procedure_param)
             THEN [IdleWaiter EXCEPT !.pc = "raised", !.param = procedure_param]
             ELSE IF IsSynchronous(synchronous)
             THEN [EnterWait(procedure_param) EXCEPT
                      !.param = procedure_param, !.blocking = TRUE]
             ELSE [ReturnUuid(procedure_param) EXCEPT
                      !.param = procedure_param, !.blocking = FALSE]
    /\ UNCHANGED <<store, txOpen, call, out, rpc, procs, aux>>

\* Lines 345-347: executor.wait_for_procedure returns and the triple is built.
WaitReturns ==
    /\ waiter.pc = "waiting"
    /\ \A i \in DOMAIN waiter.param : WaitOver(waiter.param[i])
    /\ waiter' = ReturnTriple(waiter.param)
    /\ UNCHANGED <<store, txOpen, call, out, rpc, procs, aux>>

\* The caller goes on after the call returned or raised.
CallerGoesOn ==
    /\ waiter.pc \in {"returned", "raised"}
    /\ waiter' = IdleWaiter
    /\ UNCHANGED <<store, txOpen, call, out, rpc, procs, aux>>

(* --------------------------- the system --------------------------------- *)

Init ==
    /\ store = StoreMulti
    /\ txOpen = FALSE
    /\ call = NoCall
    /\ out = NoOut
    /\ rpc = "off"
    /\ procs = [p \in Procs |-> NoProc]
    /\ waiter = IdleWaiter
    /\ AuxIdle

Next ==
    \/ \E p \in Procs : ScheduleDefault(p)
    \/ \E p \in Procs : ScheduleGroup(p)
    \/ \E p \in Procs : ScheduleShard(p)
    \/ \E p \in Procs : StartJob(p)
    \/ \E p \in Procs, success \in BOOLEAN : FinishJob(p, success)
    \/ \E n \in 0..2 : \E procedure_param \in [1..n -> Procs], synchronous \in SyncValues :
          WaitForProcedures(procedure_param, synchronous)
    \/ WaitReturns
    \/ CallerGoesOn

Spec == Init /\ [][Next]_vars

(* ===================== properties of the resolvers ====================== *)

DefaultDone == rpc = "done" /\ call.kind = "default"
GroupDone == rpc = "done" /\ call.kind = "group"
ShardDone == rpc = "done" /\ call.kind = "shard"

\* The number of calls of op in a sequence of calls.
CountOp(calls, op) ==
    Cardinality({i \in DOMAIN calls : calls[i].op = op})

\* The keys the resolved arguments args stand for in the store st: each
\* group_id value, and the first field of every local and global row of every
\* other (name, value).
ExpectedUnion(args, st) ==
    {args[n] : n \in DOMAIN args \cap {"group_id"}}
        \cup UNION { {GetGroup(st, scope, n, args[n])[k][1] :
                        k \in DOMAIN GetGroup(st, scope, n, args[n])} :
                     scope \in {"local", "global"}, n \in DOMAIN args \ {"group_id"} }

\* C2 (as claimed): when a step of ProcedureShard.get_lockable_objects between
\* begin and the end of the lookups raises, rollback is attempted exactly once,
\* commit is never called, no lock set is returned, and the exception that
\* reaches the caller is the one that was raised, whether or not the rollback
\* succeeds.
C2_OriginalExceptionReraised ==
    (ShardDone /\ out.error # NoExc) =>
        /\ CountOp(out.calls, "rollback") = 1
        /\ CountOp(out.calls, "commit") = 0
        /\ ~out.returned
        /\ out.raised = out.error

\* C3 (as claimed): whenever ProcedureShard.get_lockable_objects hands control
\* back, by returning or by raising, the transaction it began has been released
\* by a successful commit or rollback: no transaction is left open.
C3_TransactionReleased ==
    (ShardDone /\ out.calls[1].ok) =>
        /\ \E i \in DOMAIN out.calls :
              out.calls[i].op \in {"commit", "rollback"} /\ out.calls[i].ok
        /\ ~txOpen

\* C4: when all lookups succeed and persister.commit() then fails, the call
\* still returns the complete lock set computed before the commit, raises
\* nothing and does not call rollback.
C4_CommitFailureNotFatal ==
    (ShardDone /\ \E i \in DOMAIN out.calls :
                     out.calls[i].op = "commit" /\ ~out.calls[i].ok) =>
        /\ out.returned
        /\ out.raised = NoExc
        /\ out.result = IF ExpectedUnion(out.args, store) = {} THEN {Sentinel}
                        ELSE ExpectedUnion(out.args, store)
        /\ CountOp(out.calls, "rollback") = 0

C4_Witness ==
    /\ ShardDone
    /\ call.fault.op = "commit"
    /\ store = StoreSpec
    /\ out.returned
    /\ out.result = {"G1", "G2"}
    /\ txOpen

\* C5 (as claimed): a successful ProcedureShard.get_lockable_objects returns
\* exactly the union of the group_id values and of the group identifiers of the
\* local and global lookups of every other resolved argument.
C5_ExactlyTheUnion ==
    (ShardDone /\ out.returned) => out.result = ExpectedUnion(out.args, store)

\* C5 (amended): a successful ProcedureShard.get_lockable_objects returns
\* exactly that union when the union is not empty, and the set {"lock"} when
\* it is empty.
C5_UnionOrSentinel ==
    (ShardDone /\ out.returned) =>
        out.result = IF ExpectedUnion(out.args, store) = {} THEN {Sentinel}
                     ELSE ExpectedUnion(out.args, store)

C5_Witness ==
    /\ ShardDone
    /\ out.returned
    /\ store = StoreSpec
    /\ DOMAIN out.args = {"shard_id"}
    /\ out.args["shard_id"] = "7"
    /\ out.result = {"G1", "G2"}

\* The name ProcedureGroup.get_lockable_objects looks for.
GroupName(variable) ==
    IF ~Truthy(variable) THEN GroupDefaultVariable
    ELSE IF variable.t = "tuple" THEN TupleObject
    ELSE variable.v[1]

\* C6: ProcedureGroup.get_lockable_objects, resolving against execute, returns
\* the one-element set of the value the in-flight execute call received for
\* the named argument when execute has that parameter, and {"lock"} when it
\* does not; the set is never empty and never has more than one key.
C6_GroupKeyOrSentinel ==
    (GroupDone /\ ~call.function.given) =>
        /\ out.returned
        /\ Cardinality(out.result) = 1
        /\ out.result = IF GroupName(call.variable) \in call.executeArgs
                        THEN {call.frame.locals[GroupName(call.variable)]}
                        ELSE {Sentinel}

C6_Witness ==
    /\ GroupDone
    /\ ~call.function.given
    /\ call.executeArgs = {"self", "group_id", "other"}
    /\ call.variable = VarNone
    /\ call.frame.locals["group_id"] = "G1"
    /\ out.result = {"G1"}

\* C7: a successful ProcedureShard.get_lockable_objects never returns an empty
\* set: it adds the sentinel exactly when no argument resolves or every lookup
\* returns zero rows, and the result is then exactly {"lock"}.
C7_SentinelOnlyWhenEmpty ==
    (ShardDone /\ out.returned) =>
        /\ out.result # {}
        /\ out.added <=> ExpectedUnion(out.args, store) = {}
        /\ out.added => out.result = {Sentinel}
        /\ ~out.added => Sentinel \notin out.result

C7_Witness ==
    /\ ShardDone
    /\ out.returned
    /\ DOMAIN out.args # {}
    /\ CountOp(out.calls, "get_group") = 2
    /\ out.added
    /\ out.result = {Sentinel}

\* C8: the default ProcedureCommand.get_lockable_objects returns exactly
\* {"lock"} whatever its variable and function arguments are, and makes no
\* call on the persister: no transaction is opened.
C8_DefaultIsSentinel ==
    DefaultDone =>
        /\ out.returned
        /\ out.result = {Sentinel}
        /\ out.calls = <<>>
        /\ ~txOpen

C8_Witness ==
    /\ DefaultDone
    /\ call.variable = VarStr("shard_id")
    /\ call.function.given
    /\ out.result = {Sentinel}

(* ============ properties of the Executor and of the wait ================ *)

\* C1: two scheduled procedures whose lock-key sets, as returned by
\* get_lockable_objects, intersect are never RUNNING at the same time.
C1_OverlappingKeysNeverConcurrent ==
    \A p, q \in Procs :
        (p # q /\ procs[p].locks \cap procs[q].locks # {}) =>
            ~(procs[p].state = "RUNNING" /\ procs[q].state = "RUNNING")

C1_Witness ==
    /\ procs[1].locks = {"G1", "G2"}
    /\ procs[2].locks = {"G2"}
    /\ procs[1].state = "COMPLETE"
    /\ procs[2].state = "RUNNING"

\* C9: a blocking wait_for_procedures([p], synchronous) has returned only if
\* the Executor's wait was called and p is terminal, its last step COMPLETE,
\* and what it returned is the triple (str(p.uuid), p.status, p.result); as
\* long as p is not terminal the caller stays blocked.
C9_BlockingWaitReturnsTriple ==
    (waiter.blocking /\ waiter.pc = "returned") =>
        LET p == waiter.param[1]
        IN  /\ waiter.waited
            /\ procs[p].state = "COMPLETE"
            /\ procs[p].status[Len(procs[p].status)].state = "COMPLETE"
            /\ waiter.ret = Returned("triple", StrUuid(p), procs[p].status,
                                     procs[p].result)

C9_Witness ==
    /\ waiter.blocking
    /\ waiter.pc = "returned"
    /\ waiter.param = <<2>>
    /\ waiter.ret.uuid = <<"u", "u", "i", "d", "-", "2">>
    /\ waiter.ret.result = "False"
    /\ Len(waiter.ret.status) = 3

\* C10: a non-blocking wait_for_procedures([p], synchronous) returns only
\* str(p.uuid), whatever the state of p's job, never suspends, never calls the
\* Executor's wait and never reads p.status or p.result.
C10_NonBlockingWaitReturnsUuid ==
    /\ waiter.pc = "waiting" => waiter.blocking
    /\ (~waiter.blocking /\ waiter.pc = "returned") =>
          /\ waiter.ret = Returned("str", StrUuid(waiter.param[1]), <<>>, None)
          /\ ~waiter.waited
          /\ ~waiter.read

C10_Witness ==
    /\ ~waiter.blocking
    /\ waiter.pc = "returned"
    /\ procs[waiter.param[1]].state = "RUNNING"
    /\ waiter.ret.shape = "str"
    /\ waiter.ret.uuid = <<"u", "u", "i", "d", "-", "1">>

(* ============== wait_for_procedures, from drawn arguments =============== *)

\* One call of wait_for_procedures with the arguments arg, on an Executor
\* whose procedures were all scheduled.
InitWait ==
    /\ store = StoreMulti
    /\ txOpen = FALSE
    /\ call = NoCall
    /\ out = NoOut
    /\ rpc = "off"
    /\ procs = AllEnqueued
    /\ waiter = IdleWaiter
    /\ \E n \in 0..2 : \E procedure_param \in [1..n -> Procs], synchronous \in SyncValues :
          arg = [param |-> procedure_param, synchronous |-> synchronous]
    /\ ret = NoRet
    /\ cmd = NewCommand
    /\ registry = EmptyDict
    /\ regCall = NoRegCall
    /\ wrap = NoWrap
    /\ sent = <<>>

WaitCall ==
    WaitForProcedures(arg.param, arg.synchronous)

NextWait ==
    \/ WaitCall
    \/ WaitReturns
    \/ \E p \in Procs : StartJob(p)
    \/ \E p \in Procs, success \in BOOLEAN : FinishJob(p, success)

SpecWait == InitWait /\ [][NextWait]_vars

LowerChar(c) ==
    IF \E i \in DOMAIN UpperCase : UpperCase[i] = c
    THEN LowerCase[CHOOSE i \in DOMAIN UpperCase : UpperCase[i] = c]
    ELSE c

\* The string form of value is "false" or "0", whatever the case of its letters.
IsFalseToken(value) ==
    [i \in DOMAIN PyStr(value) |-> LowerChar(PyStr(value)[i])]
        \in {<<"f", "a", "l", "s", "e">>, <<"0">>}

\* C11: wait_for_procedures takes the non-blocking path exactly when the
\* string form of synchronous is, whatever its case, "false" or "0"; every
\* other value (True, 1, "no", the empty string, None among them) blocks.
C11_NonBlockingTokens ==
    (waiter.pc # "idle" /\ Len(arg.param) = 1) =>
        /\ waiter.blocking <=> ~IsFalseToken(arg.synchronous)
        /\ IsFalseToken(arg.synchronous) => (waiter.pc = "returned" /\ ~waiter.waited)
        /\ ~IsFalseToken(arg.synchronous) => waiter.waited
        /\ arg.synchronous \in {PyBool(TRUE), PyInt(1), PyString(<<"n", "o">>),
                                PyString(<<>>), PyNone} => waiter.waited

C11_Witness ==
    /\ arg.synchronous = PyString(<<"F", "a", "l", "s", "e">>)
    /\ Len(arg.param) = 1
    /\ waiter.pc = "returned"
    /\ waiter.ret.shape = "str"
    /\ ~waiter.blocking

\* C12: wait_for_procedures fails whenever procedure_param does not hold
\* exactly one procedure, and then it has neither waited on the Executor nor
\* read a procedure; with exactly one procedure it does not fail.
C12_ExactlyOneProcedure ==
    waiter.pc # "idle" =>
        /\ waiter.pc = "raised" <=> Len(arg.param) # 1
        /\ waiter.pc = "raised" =>
              /\ ~waiter.waited
              /\ ~waiter.read
              /\ waiter.ret.shape = "none"

C12_Witness ==
    /\ waiter.pc = "raised"
    /\ Len(arg.param) = 2
    /\ IsFalseToken(arg.synchronous)

(* ================= ProcedureCommand.procedure_status ===================== *)

\* Largest number of steps in a status history given to procedure_status.
MaxSteps == 2

NewLine == "\n"

\* s.split("\n")
RECURSIVE Split(_)
Split(s) ==
    IF \A i \in DOMAIN s : s[i] # NewLine
    THEN <<s>>
    ELSE LET i == CHOOSE k \in DOMAIN s :
                     s[k] = NewLine /\ \A j \in 1..(k - 1) : s[j] # NewLine
         IN  <<SubSeq(s, 1, i - 1)>> \o Split(SubSeq(s, i + 1, Len(s)))

\* sep.join(parts)
RECURSIVE Join(_, _)
Join(sep, parts) ==
    IF parts = <<>> THEN <<>>
    ELSE IF Len(parts) = 1 THEN parts[1]
    ELSE parts[1] \o sep \o Join(sep, Tail(parts))

\* Lines 368-377: the template, cut at its five %s.
ProcedureTemplate ==
    <<"Procedure :\n{ uuid        = ",
      ",\n  finished    = ",
      ",\n  success     = ",
      ",\n  return      = ",
      ",\n  activities  = ",
      "\n}">>

\* template % values: the pieces of the template with str() of each value
\* between them.
PercentFormat(template, values) ==
    [i \in 1..(2 * Len(values) + 1) |->
        IF i % 2 = 1 THEN template[(i + 1) \div 2] ELSE PyStr(values[i \div 2])]

\* The status handed to procedure_status: a bare uuid string, or the triple
\* (uuid, history, result).
StatusUuid(uuid) ==
    [shape |-> "str", uuid |-> uuid, history |-> <<>>, result |-> PyNone]

StatusTriple(uuid, history, result) ==
    [shape |-> "triple", uuid |-> uuid, history |-> history, result |-> result]

Rendered(text) == [done |-> TRUE, raised |-> NoExc, text |-> text]

Raised(type) ==
    [done |-> TRUE, raised |-> Exc(type, "procedure_status"), text |-> <<>>]

\* Mutant: the flags of a job that is not known are shown as False.
RenderUuidWithFlags(status) ==
    Rendered(PercentFormat(ProcedureTemplate,
        <<PyString(status.uuid), PyBool(FALSE), PyBool(FALSE), PyString(<<>>),
          PyString(<<>>)>>))

\* Lines 379-380.
RenderUuid(status) ==
    Rendered(PercentFormat(ProcedureTemplate,
        <<PyString(status.uuid), PyString(<<>>), PyString(<<>>), PyString(<<>>),
          PyString(<<>>)>>))

\* Mutant: the first step decides.
OperationFirst(history) ==
    history[1]

\* Line 383: operation = status[1][-1].
Operation(history) ==
    history[Len(history)]

\* Lines 389-393: the last step is a success.
RenderSuccess(status, details, complete) ==
    LET steps == [i \in DOMAIN status.history |-> status.history[i].description]
        activities == IF details THEN Join(<<NewLine, " ", " ">>, steps) ELSE <<>>
    IN  Rendered(PercentFormat(ProcedureTemplate,
            <<PyString(status.uuid), PyBool(complete), PyBool(TRUE), status.result,
              PyString(activities)>>))

\* Lines 394-398: the last step is not a success.
RenderFailure(status, details, complete, operation) ==
    LET trace == Split(operation.diagnosis)
        activities == IF details THEN Join(<<NewLine>>, trace) ELSE <<>>
    IN  IF Len(trace) < 2
        THEN Raised("IndexError")
        ELSE Rendered(PercentFormat(ProcedureTemplate,
                 <<PyString(status.uuid), PyBool(complete), PyBool(FALSE),
                   PyString(trace[Len(trace) - 1]), PyString(activities)>>))

\* Lines 358-402.
ProcedureStatus(status, details) ==
    IF status.shape = "str"
    THEN RenderUuid(status)
    ELSE IF status.history = <<>>
    THEN Raised("IndexError")
    ELSE LET operation == Operation(status.history)
             complete == operation.state = "COMPLETE"
             success == operation.success = "SUCCESS"
         IN  IF success
             THEN RenderSuccess(status, details, complete)
             ELSE RenderFailure(status, details, complete, operation)

(* ----------------- the inputs of procedure_status ----------------------- *)

Descriptions == {<<"a">>, <<"b", "c">>}

\* Diagnosis texts: empty, one line, one line and its end of line, two lines
\* with and without the last end of line.
Diagnoses ==
    {<<>>, <<"e">>, <<"e", NewLine>>, <<"x", NewLine, "e">>,
     <<"x", NewLine, "e", NewLine>>}

CharStep(state, success, description, diagnosis) ==
    [state |-> state, success |-> success, description |-> description,
     diagnosis |-> diagnosis]

StatusSteps ==
    {CharStep(st, "SUCCESS", d, <<>>) :
        st \in {"ENQUEUED", "RUNNING", "COMPLETE"}, d \in Descriptions}
    \cup {CharStep("COMPLETE", "FAILURE", d, g) : d \in Descriptions, g \in Diagnoses}

Histories == UNION {[1..n -> StatusSteps] : n \in 1..MaxSteps}

Results == {PyBool(TRUE), PyInt(3), PyNone}

Statuses ==
    {StatusUuid(StrUuid(p)) : p \in {1, 12}}
        \cup {StatusTriple(StrUuid(1), h, r) : h \in Histories, r \in Results}

InitStatus ==
    /\ store = StoreMulti
    /\ txOpen = FALSE
    /\ call = NoCall
    /\ out = NoOut
    /\ rpc = "off"
    /\ procs = [p \in Procs |-> NoProc]
    /\ waiter = IdleWaiter
    /\ \E status \in Statuses, details \in BOOLEAN :
          arg = [status |-> status, details |-> details]
    /\ ret = NoRet
    /\ cmd = NewCommand
    /\ registry = EmptyDict
    /\ regCall = NoRegCall
    /\ wrap = NoWrap
    /\ sent = <<>>

StatusCall ==
    /\ ~ret.done
    /\ ret' = ProcedureStatus(arg.status, arg.details)
    /\ UNCHANGED <<store, txOpen, call, out, rpc, procs, waiter, arg, cmd, registry,
                   regCall, wrap, sent>>

SpecStatus == InitStatus /\ [][StatusCall]_vars

(* ----------------- claims about procedure_status ------------------------ *)

\* The i-th value printed in a rendered template (1 = uuid, 2 = finished,
\* 3 = success, 4 = return, 5 = activities).
Field(text, i) == text[2 * i]

\* A rendered text is the template with five values in its five places.
IsStatusBlock(text) ==
    /\ Len(text) = 11
    /\ \A i \in 1..6 : text[2 * i - 1] = ProcedureTemplate[i]

LastStep == arg.status.history[Len(arg.status.history)]

StepDescriptions ==
    [i \in DOMAIN arg.status.history |-> arg.status.history[i].description]

SuccessCase ==
    /\ ret.done
    /\ arg.status.shape = "triple"
    /\ LastStep.state = "COMPLETE"
    /\ LastStep.success = "SUCCESS"

FailureCase ==
    /\ ret.done
    /\ arg.status.shape = "triple"
    /\ LastStep.success # "SUCCESS"

\* C13: for every triple whose last step is not a success, whatever its
\* diagnosis text is, procedure_status returns a status block and raises
\* nothing.
C13_FailureNeverRaises ==
    FailureCase => (ret.raised = NoExc /\ IsStatusBlock(ret.text))

\* C14 as stated: last step COMPLETE and SUCCESS renders finished=True,
\* success=True, return=str(result); with details the activities are the
\* descriptions of all steps joined by a newline, without details empty.
C14_JoinedByNewlines ==
    SuccessCase =>
        /\ ret.raised = NoExc
        /\ IsStatusBlock(ret.text)
        /\ Field(ret.text, 1) = arg.status.uuid
        /\ Field(ret.text, 2) = <<"T", "r", "u", "e">>
        /\ Field(ret.text, 3) = <<"T", "r", "u", "e">>
        /\ Field(ret.text, 4) = PyStr(arg.status.result)
        /\ Field(ret.text, 5) =
              IF arg.details THEN Join(<<NewLine>>, StepDescriptions) ELSE <<>>

\* C14 amended: as above, but with details the descriptions are joined by a
\* newline followed by two spaces.
C14_JoinedByNewlineAndIndent ==
    SuccessCase =>
        /\ ret.raised = NoExc
        /\ IsStatusBlock(ret.text)
        /\ Field(ret.text, 1) = arg.status.uuid
        /\ Field(ret.text, 2) = <<"T", "r", "u", "e">>
        /\ Field(ret.text, 3) = <<"T", "r", "u", "e">>
        /\ Field(ret.text, 4) = PyStr(arg.status.result)
        /\ Field(ret.text, 5) =
              IF arg.details
              THEN Join(<<NewLine, " ", " ">>, StepDescriptions)
              ELSE <<>>

\* A successful history of two steps whose first step is a failure, rendered
\* with details.
C14_Witness ==
    /\ SuccessCase
    /\ arg.details
    /\ Len(arg.status.history) = 2
    /\ arg.status.history[1].success = "FAILURE"
    /\ arg.status.result = PyInt(3)
    /\ ret.raised = NoExc

\* C15: for every triple whose last step is not a success, the rendering has
\* success=False, return = the second-to-last line of the step's diagnosis,
\* and with details the activities are all lines of the diagnosis joined by
\* newlines.
C15_FailureRendersTrace ==
    FailureCase =>
        /\ ret.raised = NoExc
        /\ IsStatusBlock(ret.text)
        /\ Field(ret.text, 3) = <<"F", "a", "l", "s", "e">>
        /\ LET trace == Split(LastStep.diagnosis)
           IN  /\ Len(trace) >= 2
               /\ Field(ret.text, 4) = trace[Len(trace) - 1]
               /\ Field(ret.text, 5) =
                     IF arg.details THEN Join(<<NewLine>>, trace) ELSE <<>>

\* C16: a bare uuid renders the template with the uuid in its place and the
\* four other values empty, with and without details.
C16_BareUuidRendering ==
    (ret.done /\ arg.status.shape = "str") =>
        /\ ret.raised = NoExc
        /\ ret.text =
              <<ProcedureTemplate[1], arg.status.uuid, ProcedureTemplate[2], <<>>,
                ProcedureTemplate[3], <<>>, ProcedureTemplate[4], <<>>,
                ProcedureTemplate[5], <<>>, ProcedureTemplate[6]>>

C16_Witness ==
    /\ ret.done
    /\ arg.status.shape = "str"
    /\ arg.details
    /\ Field(ret.text, 1) = StrUuid(12)

(* ================= Command.setup_client / setup_server =================== *)

\* Largest number of setup calls made on one command instance.
MaxSetupCalls == 3

Clients == {None, "client1", "client2"}
Servers == {None, "server1", "server2"}
Options == {None, "options1", "options2"}
Configs == {None, "config1", "config2"}

\* Mutant: setup_client without its assertion.
ClientAssertAlways(self) ==
    TRUE

\* Line 224: assert self.__server is None.
ClientAssert(self) ==
    self.server = None

\* Line 241: assert self.__client is None.
ServerAssert(self) ==
    self.client = None

\* Mutant: the assertion fails after the options and the configuration were
\* dropped.
AssertionFailedAfterReset(self, method) ==
    [self EXCEPT !.options = None, !.config = None, !.last = method,
                 !.raised = Exc("AssertionError", method), !.calls = @ + 1]

AssertionFailed(self, method) ==
    [self EXCEPT !.last = method, !.raised = Exc("AssertionError", method),
                 !.calls = @ + 1]

\* Lines 210-227.
SetupClient(client, options, config) ==
    /\ cmd.calls < MaxSetupCalls
    /\ cmd' = IF ~ClientAssert(cmd)
              THEN AssertionFailed(cmd, "setup_client")
              ELSE [cmd EXCEPT !.client = client, !.options = options,
                               !.config = config, !.last = "setup_client",
                               !.raised = NoExc, !.calls = @ + 1]
    /\ UNCHANGED <<store, txOpen, call, out, rpc, procs, waiter, arg, ret, registry,
                   regCall, wrap, sent>>

\* Lines 229-244.
SetupServer(server, options, config) ==
    /\ cmd.calls < MaxSetupCalls
    /\ cmd' = IF ~ServerAssert(cmd)
              THEN AssertionFailed(cmd, "setup_server")
              ELSE [cmd EXCEPT !.server = server, !.options = options,
                               !.config = config, !.last = "setup_server",
                               !.raised = NoExc, !.calls = @ + 1]
    /\ UNCHANGED <<store, txOpen, call, out, rpc, procs, waiter, arg, ret, registry,
                   regCall, wrap, sent>>

\* Lines 180-184: a command as its constructor leaves it.
InitCommand ==
    /\ store = StoreMulti
    /\ txOpen = FALSE
    /\ call = NoCall
    /\ out = NoOut
    /\ rpc = "off"
    /\ procs = [p \in Procs |-> NoProc]
    /\ waiter = IdleWaiter
    /\ AuxIdle

NextCommand ==
    \/ \E client \in Clients, options \in Options, config \in Configs :
          SetupClient(client, options, config)
    \/ \E server \in Servers, options \in Options, config \in Configs :
          SetupServer(server, options, config)

SpecCommand == InitCommand /\ [][NextCommand]_vars

\* C17: a command never has a client and a server at the same time;
\* setup_client on a command with a server, and setup_server on a command
\* with a client, raise and change none of the four attributes.
C17_NeverBothContexts ==
    /\ [](~(cmd.client # None /\ cmd.server # None))
    /\ [][/\ (cmd.server # None /\ cmd'.last = "setup_client") =>
                /\ cmd'.raised.type = "AssertionError"
                /\ <<cmd'.client, cmd'.server, cmd'.options, cmd'.config>> =
                      <<cmd.client, cmd.server, cmd.options, cmd.config>>
          /\ (cmd.client # None /\ cmd'.last = "setup_server") =>
                /\ cmd'.raised.type = "AssertionError"
                /\ <<cmd'.client, cmd'.server, cmd'.options, cmd'.config>> =
                      <<cmd.client, cmd.server, cmd.options, cmd.config>>]_vars

\* setup_client was refused on a command that has a server.
C17_Witness ==
    /\ cmd.server = "server1"
    /\ cmd.client = None
    /\ cmd.last = "setup_client"
    /\ cmd.raised.type = "AssertionError"

(* ================= the registry of commands ============================== *)

GroupNames == {"g1", "g2"}
CommandNames == {"n1", "n2"}
CommandClasses == {"c1", "c2"}

\* d[k] = v
DictSet(d, k, v) ==
    [x \in DOMAIN d \cup {k} |-> IF x = k THEN v ELSE d[x]]

\* del d[k]
DictDel(d, k) ==
    [x \in DOMAIN d \ {k} |-> d[x]]

\* Line 50: _COMMANDS_CLASS.setdefault(group_name, {}).
SetDefault(d, group_name) ==
    IF group_name \in DOMAIN d THEN d ELSE DictSet(d, group_name, EmptyDict)

\* Mutant: a name that is registered keeps its command.
SetCommandKeepFirst(commands, command_name, command) ==
    IF command_name \in DOMAIN commands
    THEN commands
    ELSE DictSet(commands, command_name, command)

\* Line 51: commands[command_name] = command.
SetCommand(commands, command_name, command) ==
    DictSet(commands, command_name, command)

\* Mutant: a group without commands stays.
KeepEmptyGroup(d, group_name) ==
    d

\* Lines 60-61.
DropEmptyGroup(d, group_name) ==
    IF DOMAIN d[group_name] = {} THEN DictDel(d, group_name) ELSE d

\* _COMMANDS_CLASS[group_name][command_name] can be evaluated.
HasCommand(d, group_name, command_name) ==
    /\ group_name \in DOMAIN d
    /\ command_name \in DOMAIN d[group_name]

RegCall(op, group_name, command_name, command, raised, result) ==
    [op |-> op, group |-> group_name, name |-> command_name, command |-> command,
     before |-> registry, raised |-> raised, result |-> result]

\* Mutant: a pair that is not registered gives None.
LookupOrNone(d, group_name, command_name) ==
    RegCall("get_command", group_name, command_name, "", NoExc,
            IF HasCommand(d, group_name, command_name)
            THEN <<d[group_name][command_name]>>
            ELSE <<None>>)

\* Line 85: the value of _COMMANDS_CLASS[group_name][command_name], or the
\* KeyError of the failing subscript.
Lookup(d, group_name, command_name) ==
    IF HasCommand(d, group_name, command_name)
    THEN RegCall("get_command", group_name, command_name, "", NoExc,
                 <<d[group_name][command_name]>>)
    ELSE RegCall("get_command", group_name, command_name, "",
                 Exc("KeyError", "get_command"), <<>>)

\* Lines 42-51.
RegisterCommand(group_name, command_name, command) ==
    /\ registry' =
          LET d == SetDefault(registry, group_name)
          IN  DictSet(d, group_name, SetCommand(d[group_name], command_name, command))
    /\ regCall' = RegCall("register_command", group_name, command_name, command,
                          NoExc, <<>>)
    /\ UNCHANGED <<store, txOpen, call, out, rpc, procs, waiter, arg, ret, cmd,
                   wrap, sent>>

\* Lines 53-61.
UnregisterCommand(group_name, command_name) ==
    /\ IF HasCommand(registry, group_name, command_name)
       THEN /\ registry' =
                  DropEmptyGroup(
                      DictSet(registry, group_name,
                              DictDel(registry[group_name], command_name)),
                      group_name)
            /\ regCall' = RegCall("unregister_command", group_name, command_name, "",
                                  NoExc, <<>>)
       ELSE /\ registry' = registry
            /\ regCall' = RegCall("unregister_command", group_name, command_name, "",
                                  Exc("KeyError", "unregister_command"), <<>>)
    /\ UNCHANGED <<store, txOpen, call, out, rpc, procs, waiter, arg, ret, cmd,
                   wrap, sent>>

\* Lines 63-68: the keys, in the order the dictionary gives them.
GetGroups ==
    /\ \E keys \in Orders(DOMAIN registry) :
          regCall' = RegCall("get_groups", "", "", "", NoExc, keys)
    /\ UNCHANGED <<store, txOpen, call, out, rpc, procs, waiter, arg, ret, cmd,
                   registry, wrap, sent>>

\* Lines 70-76.
GetCommands(group_name) ==
    /\ IF group_name \in DOMAIN registry
       THEN \E keys \in Orders(DOMAIN registry[group_name]) :
               regCall' = RegCall("get_commands", group_name, "", "", NoExc, keys)
       ELSE regCall' = RegCall("get_commands", group_name, "", "",
                               Exc("KeyError", "get_commands"), <<>>)
    /\ UNCHANGED <<store, txOpen, call, out, rpc, procs, waiter, arg, ret, cmd,
                   registry, wrap, sent>>

\* Lines 78-85.
GetCommand(group_name, command_name) ==
    /\ regCall' = Lookup(registry, group_name, command_name)
    /\ UNCHANGED <<store, txOpen, call, out, rpc, procs, waiter, arg, ret, cmd,
                   registry, wrap, sent>>

\* Line 40: the registry of a module that defines no command yet.
InitRegistry ==
    /\ store = StoreMulti
    /\ txOpen = FALSE
    /\ call = NoCall
    /\ out = NoOut
    /\ rpc = "off"
    /\ procs = [p \in Procs |-> NoProc]
    /\ waiter = IdleWaiter
    /\ arg = NoArg
    /\ ret = NoRet
    /\ cmd = NewCommand
    /\ registry = EmptyDict
    /\ regCall = NoRegCall
    /\ wrap = NoWrap
    /\ sent = <<>>

NextRegistry ==
    \/ \E g \in GroupNames, n \in CommandNames, c \in CommandClasses :
          RegisterCommand(g, n, c)
    \/ \E g \in GroupNames, n \in CommandNames : UnregisterCommand(g, n)
    \/ GetGroups
    \/ \E g \in GroupNames : GetCommands(g)
    \/ \E g \in GroupNames, n \in CommandNames : GetCommand(g, n)

SpecRegistry == InitRegistry /\ [][NextRegistry]_vars

(* ----------------- claims about the registry ---------------------------- *)

\* The (group, name) pairs that have a command in d.
Registered(d) ==
    {<<g, n>> \in GroupNames \X CommandNames : g \in DOMAIN d /\ n \in DOMAIN d[g]}

\* result lists every element of S once and nothing else.
ListsExactly(result, S) ==
    /\ {result[i] : i \in DOMAIN result} = S
    /\ Len(result) = Cardinality(S)

\* C18: no group of the registry is without commands, get_groups() lists
\* exactly the groups with a registered command, and after the last command
\* of a group is unregistered the group is gone.
C18_GroupsHaveCommands ==
    /\ \A g \in DOMAIN registry : DOMAIN registry[g] # {}
    /\ (regCall.op = "get_groups") =>
          /\ regCall.raised = NoExc
          /\ ListsExactly(regCall.result, {p[1] : p \in Registered(registry)})
    /\ (/\ regCall.op = "unregister_command"
        /\ regCall.raised = NoExc
        /\ DOMAIN regCall.before[regCall.group] = {regCall.name}) =>
          regCall.group \notin DOMAIN registry

\* get_groups() after the only command of g1 was unregistered while g2 has one.
C18_Witness ==
    /\ regCall.op = "get_groups"
    /\ regCall.result = <<"g2">>
    /\ Registered(registry) = {<<"g2", "n1">>}

\* C19: register_command on a registered pair replaces its command and
\* leaves every other pair as it was; get_command returns the command the
\* pair has, and get_commands lists each name of the group once.
C19_RegisterOverwrites ==
    /\ (/\ regCall.op = "register_command"
        /\ <<regCall.group, regCall.name>> \in Registered(regCall.before)) =>
          /\ regCall.raised = NoExc
          /\ Registered(registry) = Registered(regCall.before)
          /\ \A p \in Registered(registry) :
                registry[p[1]][p[2]] =
                   IF p = <<regCall.group, regCall.name>>
                   THEN regCall.command
                   ELSE regCall.before[p[1]][p[2]]
    /\ (regCall.op = "get_command" /\ regCall.raised = NoExc) =>
          /\ <<regCall.group, regCall.name>> \in Registered(registry)
          /\ regCall.result = <<registry[regCall.group][regCall.name]>>
    /\ (regCall.op = "get_commands" /\ regCall.raised = NoExc) =>
          ListsExactly(regCall.result,
                       {p[2] : p \in {q \in Registered(registry) : q[1] = regCall.group}})

\* (g1, n1) had c1 and was registered again with c2, while (g1, n2) has c1.
C19_Witness ==
    /\ regCall.op = "register_command"
    /\ regCall.group = "g1"
    /\ regCall.name = "n1"
    /\ regCall.command = "c2"
    /\ <<"g1", "n1">> \in Registered(regCall.before)
    /\ regCall.before["g1"]["n1"] = "c1"
    /\ <<"g1", "n2">> \in Registered(registry)
    /\ registry["g1"]["n1"] = "c2"

\* The call of regCall was made on something that is not registered.
NotFoundCase ==
    \/ /\ regCall.op = "get_commands"
       /\ regCall.group \notin {p[1] : p \in Registered(regCall.before)}
    \/ /\ regCall.op \in {"get_command", "unregister_command"}
       /\ <<regCall.group, regCall.name>> \notin Registered(regCall.before)

\* C20 as stated: the three calls on something that is not registered raise
\* NotFoundError, return nothing and leave the registry as it was.
C20_NotFoundError ==
    NotFoundCase =>
        /\ regCall.raised.type = "NotFoundError"
        /\ regCall.result = <<>>
        /\ registry = regCall.before

\* C20 amended: the error is KeyError.
C20_KeyError ==
    NotFoundCase =>
        /\ regCall.raised.type = "KeyError"
        /\ regCall.result = <<>>
        /\ registry = regCall.before

\* get_command on a name that its group does not have.
C20_Witness ==
    /\ regCall.op = "get_command"
    /\ regCall.group = "g1"
    /\ regCall.name = "n2"
    /\ Registered(registry) = {<<"g1", "n1">>}
    /\ regCall.raised.type = "KeyError"

(* ----------------- more claims about setup_client / setup_server -------- *)

\* C26: a setup call that is rejected leaves client, server, options and
\* config of the command as they were before the call.
C26_RejectedSetupChangesNothing ==
    [][(cmd'.calls = cmd.calls + 1 /\ cmd'.raised.type = "AssertionError") =>
          /\ cmd'.client = cmd.client
          /\ cmd'.server = cmd.server
          /\ cmd'.options = cmd.options
          /\ cmd'.config = cmd.config]_vars

\* setup_server was refused on a command set up as a client with options and
\* a configuration.
C26_Witness ==
    /\ cmd.client = "client2"
    /\ cmd.server = None
    /\ cmd.options = "options1"
    /\ cmd.config = "config2"
    /\ cmd.last = "setup_server"
    /\ cmd.raised.type = "AssertionError"

(* ----------------- more claims about ProcedureShard --------------------- *)

\* The positions of the calls of op in a sequence of calls.
Positions(calls, op) ==
    {i \in DOMAIN calls : calls[i].op = op}

\* C24: a run of ProcedureShard.get_lockable_objects calls begin once, as its
\* first call, makes every lookup after it and before the closing call, and
\* ends with exactly one closing call: commit when nothing raised, rollback
\* when something raised.
C24_OneTransactionPerRun ==
    ShardDone =>
        LET calls == out.calls
            closing == Positions(calls, "commit") \cup Positions(calls, "rollback")
        IN  /\ Positions(calls, "begin") = {1}
            /\ closing = {Len(calls)}
            /\ Len(calls) >= 2
            /\ \A i \in Positions(calls, "get_group") : 1 < i /\ i < Len(calls)
            /\ \A i \in DOMAIN calls :
                  calls[i].op \in {"begin", "get_group", "commit", "rollback"}
            /\ calls[Len(calls)].op = "commit" <=> out.error = NoExc
            /\ calls[Len(calls)].op = "commit" =>
                  \A i \in 1..(Len(calls) - 1) : calls[i].ok
            /\ calls[Len(calls)].op = "rollback" <=>
                  (out.error # NoExc /\ ~out.returned)

\* The second lookup raised after the first one returned: begin, two lookups
\* and the rollback.
C24_Witness ==
    /\ ShardDone
    /\ Len(out.calls) = 4
    /\ out.calls[2].op = "get_group" /\ out.calls[2].ok
    /\ out.calls[3].op = "get_group" /\ ~out.calls[3].ok
    /\ out.calls[4].op = "rollback"
    /\ ~out.returned

\* The candidate names of a call of ProcedureShard.get_lockable_objects.
Candidates(variable) ==
    IF ~Truthy(variable)
    THEN {ShardDefaultVariable[i] : i \in DOMAIN ShardDefaultVariable}
    ELSE {variable.v[i] : i \in DOMAIN variable.v}

\* C25: only candidate names that the function (execute, unless another one
\* is given) declares are resolved and looked up; a name it does not declare
\* is never looked up and gives no key, whatever the caller's frame holds;
\* no (scope, name) is looked up twice, and a run that returns has looked up
\* each resolved name other than group_id once locally and once globally.
C25_OnlyDeclaredNames ==
    ShardDone =>
        LET declared == Candidates(call.variable)
                           \cap ArgSpec(call.function, call.executeArgs)
            lookups == Positions(out.calls, "get_group")
            values == [n \in declared \cap DOMAIN call.frame.locals |->
                          call.frame.locals[n]]
        IN  /\ DOMAIN out.args \subseteq declared
            /\ \A i \in lookups : out.calls[i].name \in declared \ {"group_id"}
            /\ \A i, j \in lookups :
                  (/\ out.calls[i].name = out.calls[j].name
                   /\ out.calls[i].scope = out.calls[j].scope) => i = j
            /\ out.returned =>
                  /\ DOMAIN out.args = declared
                  /\ \A n \in declared \ {"group_id"} :
                        \A scope \in {"local", "global"} :
                           \E i \in lookups : /\ out.calls[i].name = n
                                              /\ out.calls[i].scope = scope
                                              /\ out.calls[i].value = out.args[n]
                  /\ out.result \subseteq ExpectedUnion(values, store) \cup {Sentinel}

\* execute declares table_name only, the caller also has a variable shard_id
\* that the store maps to groups: only table_name is looked up.
C25_Witness ==
    /\ ShardDone
    /\ out.returned
    /\ ~Truthy(call.variable)
    /\ ~call.function.given
    /\ call.executeArgs = {"self", "table_name"}
    /\ "shard_id" \in DOMAIN call.frame.locals
    /\ call.frame.locals["shard_id"] = "7"
    /\ call.frame.locals["table_name"] = "7"
    /\ store = StoreMulti
    /\ Cardinality(Positions(out.calls, "get_group")) = 2
    /\ out.result = {"G1", "G2"}

(* ================= CommandMeta._wrapfunc ================================= *)

\* Largest number of calls of a wrapped execute in one behaviour.
MaxInvocations == 3

\* Names of classes whose execute was wrapped by CommandMeta.__new__, the
\* arguments they are called with and the values execute returns.
WrappedClasses == {"GroupLookup", "ShardSplit"}
ExecuteArguments == {<<>>, <<"7">>}
ExecuteValues == {None, "1"}

\* Lines 121 and 123: one record of the debug log.
LogEvent(event, cname) == [event |-> event, cname |-> cname]

\* Lines 120-122: _wrap logs "Started command (cname)." and calls the
\* original function.
WrapCall(cname, args) ==
    /\ wrap.pc # "running"
    /\ wrap.calls < MaxInvocations
    /\ wrap' = [wrap EXCEPT !.pc = "running", !.cname = cname, !.args = args,
                            !.value = None, !.ret = None, !.raised = NoExc,
                            !.log = Append(@, LogEvent("Started", cname)),
                            !.calls = @ + 1]
    /\ UNCHANGED <<store, txOpen, call, out, rpc, procs, waiter, arg, ret, cmd,
                   registry, regCall, sent>>

\* Lines 122-124: the original function returns; _wrap logs "Finished command
\* (cname)." and returns the same value.
ExecuteReturns(value) ==
    /\ wrap.pc = "running"
    /\ wrap' = [wrap EXCEPT !.pc = "returned", !.value = value, !.ret = value,
                            !.log = Append(@, LogEvent("Finished", wrap.cname))]
    /\ UNCHANGED <<store, txOpen, call, out, rpc, procs, waiter, arg, ret, cmd,
                   registry, regCall, sent>>

\* Line 122: the original function raises; nothing in _wrap handles the
\* exception, which leaves _wrap at once.
ExecuteRaises ==
    /\ wrap.pc = "running"
    /\ wrap' = [wrap EXCEPT !.pc = "raised", !.raised = Exc("Exception", "execute")]
    /\ UNCHANGED <<store, txOpen, call, out, rpc, procs, waiter, arg, ret, cmd,
                   registry, regCall, sent>>

NextWrap ==
    \/ \E cname \in WrappedClasses, args \in ExecuteArguments : WrapCall(cname, args)
    \/ \E value \in ExecuteValues : ExecuteReturns(value)
    \/ ExecuteRaises

SpecWrap == InitCommand /\ [][NextWrap]_vars

\* The number of records of an event in the log.
Logged(log, event) ==
    Cardinality({i \in DOMAIN log : log[i].event = event})

\* C21: when a call of a wrapped execute has ended, by a return or by an
\* exception, the log holds one "Finished" for every "Started", the last of
\* them for this call; a call that returned gave execute's value.
C21_StartedThenFinished ==
    (wrap.pc \in {"returned", "raised"}) =>
        /\ wrap.log # <<>>
        /\ wrap.log[Len(wrap.log)] = LogEvent("Finished", wrap.cname)
        /\ Logged(wrap.log, "Finished") = wrap.calls
        /\ Logged(wrap.log, "Started") = wrap.calls
        /\ wrap.pc = "returned" => wrap.ret = wrap.value

(* ================= CommandMeta.__init__ ================================== *)

\* Lines 94-95.
IgnoredCommand ==
    {<<"c", "o", "m", "m", "a", "n", "d">>,
     <<"p", "r", "o", "c", "e", "d", "u", "r", "e", "c", "o", "m", "m",
       "a", "n", "d">>,
     <<"p", "r", "o", "c", "e", "d", "u", "r", "e", "g", "r", "o", "u", "p">>,
     <<"p", "r", "o", "c", "e", "d", "u", "r", "e", "s", "h", "a", "r", "d">>}

\* [A-Za-z]
IsLetter(c) ==
    \E i \in DOMAIN LowerCase : c = LowerCase[i] \/ c = UpperCase[i]

\* \w of a pattern compiled without flags: [A-Za-z0-9_].
IsWordChar(c) ==
    IsLetter(c) \/ c = "_" \/ \E d \in 0..9 : c = Digit(d)

\* Line 110: re.match("[A-Za-z]\w+", name) gives a match.  re.match looks for
\* the pattern at the start of the string and does not ask it to reach the
\* end: a letter, then at least one word character, then anything.
ReMatch(name) ==
    /\ Len(name) >= 2
    /\ IsLetter(name[1])
    /\ IsWordChar(name[2])

\* str.lower()
PyLower(s) == [i \in DOMAIN s |-> LowerChar(s[i])]

\* The class statements drawn: class names, and command_name and group_name
\* attributes.  An attribute is <<>> when the class lacks it (AttributeError,
\* lines 99-107) and <<value>> when it has it.
ClassNames ==
    {<<"A", "b">>, <<"X">>, <<"_", "T">>,
     <<"C", "o", "m", "m", "a", "n", "d">>}

CommandNameAttrs ==
    {<<>>, <<<<"a", "_", "1">>>>, <<<<"a", "b", "-", "c">>>>,
     <<<<"1", "a">>>>, <<<<>>>>,
     <<<<"p", "r", "o", "c", "e", "d", "u", "r", "e", "g", "r", "o", "u", "p">>>>}

GroupNameAttrs == {<<>>, <<"g1">>}

\* Largest number of commands in the registry before a class statement.
MaxRegistered == 2

\* The number of (group, name) pairs in the registry.
RegistrySize(d) ==
    Cardinality(UNION {{<<g, n>> : n \in DOMAIN d[g]} : g \in DOMAIN d})

\* Lines 96-111: the class cls named cname is created in module.
DefineClass(cls, cname, module, group_name_attr, command_name_attr) ==
    LET group_name == IF group_name_attr # <<>> THEN group_name_attr[1] ELSE module
        command_name == IF command_name_attr # <<>> THEN command_name_attr[1]
                        ELSE PyLower(cname)
        d == SetDefault(registry, group_name)
    IN  /\ RegistrySize(registry) < MaxRegistered
        /\ registry' =
              IF command_name \notin IgnoredCommand /\ ReMatch(command_name)
              THEN DictSet(d, group_name, SetCommand(d[group_name], command_name, cls))
              ELSE registry
        /\ regCall' = RegCall("class", group_name, command_name, cls, NoExc, <<>>)
        /\ UNCHANGED <<store, txOpen, call, out, rpc, procs, waiter, arg, ret, cmd,
                       wrap, sent>>

NextMeta ==
    \E cls \in CommandClasses, cname \in ClassNames, module \in {"m1"},
       group_name_attr \in GroupNameAttrs, command_name_attr \in CommandNameAttrs :
          DefineClass(cls, cname, module, group_name_attr, command_name_attr)

SpecMeta == InitRegistry /\ [][NextMeta]_vars

\* A name that starts with a letter and consists of word characters.
StartsWithLetterAllWord(name) ==
    /\ name # <<>>
    /\ IsLetter(name[1])
    /\ \A i \in DOMAIN name : IsWordChar(name[i])

\* C22: a class statement never raises; a class whose command name is an
\* ignored name, or does not start with a letter, or has a character that is
\* not a word character, leaves the registry as it was; any other class is
\* registered under (group_name, command_name).
C22_InvalidNamesSkipped ==
    (regCall.op = "class") =>
        /\ regCall.raised = NoExc
        /\ LET d == SetDefault(regCall.before, regCall.group)
           IN  registry =
                  IF /\ StartsWithLetterAllWord(regCall.name)
                     /\ regCall.name \notin IgnoredCommand
                  THEN DictSet(d, regCall.group,
                               DictSet(d[regCall.group], regCall.name, regCall.command))
                  ELSE regCall.before

(* ================= Command.dispatch / ProcedureCommand.dispatch ========== *)

\* Lines 276-282: "Command :\n{ return = %s\n}" % (status, ).
CommandStatus(status) ==
    Rendered(<<"Command :\n{ return = ", PyStr(status), "\n}">>)

\* The arguments given to dispatch, and the statuses the client's dispatch
\* hands back for a procedure.
DispatchArguments == UNION {[1..n -> {"a", "b"}] : n \in 0..2}

DispatchReplies == {status \in Statuses : Len(status.history) <= 1}

\* Lines 259-268.  A command without a client has None as self.client, and
\* self.client.dispatch raises AttributeError before anything is sent.
CommandDispatch(args, status) ==
    /\ ~ret.done
    /\ arg' = [kind |-> "Command", client |-> cmd.client, args |-> args,
               status |-> status]
    /\ IF cmd.client = None
       THEN /\ sent' = sent
            /\ ret' = [done |-> TRUE, raised |-> Exc("AttributeError", "dispatch"),
                       text |-> <<>>]
       ELSE /\ sent' = Append(sent, [command |-> "self", args |-> args])
            /\ ret' = CommandStatus(status)
    /\ UNCHANGED <<store, txOpen, call, out, rpc, procs, waiter, cmd, registry,
                   regCall, wrap>>

\* Lines 312-322.
ProcedureDispatch(args, status) ==
    /\ ~ret.done
    /\ arg' = [kind |-> "ProcedureCommand", client |-> cmd.client, args |-> args,
               status |-> status]
    /\ IF cmd.client = None
       THEN /\ sent' = sent
            /\ ret' = [done |-> TRUE, raised |-> Exc("AttributeError", "dispatch"),
                       text |-> <<>>]
       ELSE /\ sent' = Append(sent, [command |-> "self", args |-> args])
            /\ ret' = ProcedureStatus(status, FALSE)
    /\ UNCHANGED <<store, txOpen, call, out, rpc, procs, waiter, cmd, registry,
                   regCall, wrap>>

NextDispatch ==
    \/ \E client \in Clients, options \in Options, config \in Configs :
          SetupClient(client, options, config)
    \/ \E args \in DispatchArguments,
          status \in Results \cup {PyString(StrUuid(12))} :
             CommandDispatch(args, status)
    \/ \E args \in DispatchArguments, status \in DispatchReplies :
          ProcedureDispatch(args, status)

SpecDispatch == InitCommand /\ [][NextDispatch]_vars

\* C23: a dispatch on a command that has a client makes one call of the
\* client's dispatch, with the command and the arguments as given, and
\* returns the "Command" template filled with the status (Command) or the
\* "Procedure" template filled from the status (ProcedureCommand).
C23_DispatchForwardsOnce ==
    (ret.done /\ arg.client # None) =>
        /\ sent = <<[command |-> "self", args |-> arg.args]>>
        /\ ret.raised = NoExc
        /\ arg.kind = "Command" =>
              ret.text = <<"Command :\n{ return = ", PyStr(arg.status), "\n}">>
        /\ arg.kind = "ProcedureCommand" =>
              /\ IsStatusBlock(ret.text)
              /\ Field(ret.text, 1) = arg.status.uuid

====
